---- MODULE Spec2Model ----
(***************************************************************************)
(* CfCookieManager (src/src/services/cf_cookie_manager.py): a cache of     *)
(* Cloudflare clearance cookies keyed by proxy, with one asyncio.Lock per  *)
(* key and a double-checked read.                                          *)
(*                                                                         *)
(* Scheduling is that of asyncio: one event loop, a coroutine runs without *)
(* interruption from one suspension point to the next.  get_cookies can    *)
(* suspend at the global lock (line 45), at the key's lock (line 79) and   *)
(* while _fetch_cookies_via_browser runs (line 86); invalidate and         *)
(* invalidate_all are plain functions and never suspend.  One action is    *)
(* one such uninterrupted run of one coroutine.                            *)
(*                                                                         *)
(* ProxyManager.get_proxy_url (src/src/services/proxy_manager.py) picks    *)
(* the proxy of a request from the database: a token's own proxy, else the *)
(* global one.                                                             *)
(***************************************************************************)
EXTENDS Naturals, Sequences, FiniteSets

(* ----------------------------- bounds --------------------------------- *)

\* Number of get_cookies calls in a run; each is one asyncio task.
NumTasks == 3
\* Number of times the clock advances in a run.
MaxTicks == 2

(* ---------------------------- constants ------------------------------- *)

\* CfCookieManager.CACHE_TTL, in seconds.
CACHE_TTL == 600

\* _DEFAULT_UA, the identity string returned with every cookie set.
_DEFAULT_UA == "Chrome/131.0.0.0"

\* Python's None as a proxy_url argument.
NoUrl == "None"
\* None as the value returned by get_cookies and _fetch_cookies_via_browser.
None == <<>>
\* No task (an unlocked lock has no holder).
NoTask == 0

Tasks == 1..NumTasks

\* The proxy_url arguments callers pass: None, the empty string, a proxy.
Urls == {NoUrl, "", "pA"}

\* The same, and a proxy_url that spells the key of the calls without proxy.
AllUrls == Urls \cup {"__no_proxy__"}

\* The token ids of the database, and the token_id arguments of get_proxy_url:
\* None, or <<i>> for the integer i (0 is an id like any other).
TokenIds == {0, 1}
TokenArgs == {None} \cup {<<i>> : i \in TokenIds}

\* db.get_token(i) returns None: there is no such token.
NoToken == "no token"
\* What the database holds for a token id: no token, or a token, given by its
\* proxy_url (None, empty, a proxy).
TokenRows == {NoToken, NoUrl, "", "pT"}
\* The proxy_url of the global proxy configuration.
ConfigUrls == {NoUrl, "", "pG"}

\* The clock is read on a grid of half a CACHE_TTL: an entry is seen at the
\* ages 0 and CACHE_TTL/2 (valid), CACHE_TTL exactly and beyond (expired).
TimeUnit == CACHE_TTL \div 2

VARIABLES
    PLAYWRIGHT_AVAILABLE, \* module flag set at import (lines 10-14)
    _cache,               \* self._cache: key -> <<cookies, user_agent, timestamp>>
    _locks,               \* self._locks: key -> lock instance (index into lock_objs)
    lock_objs,            \* the asyncio.Lock instances created so far: holder, waiters
    _global_lock,         \* self._global_lock: the task holding it, or NoTask
    now,                  \* time.time()
    tasks,                \* per call: position in get_cookies, its arguments and
                          \* locals, the proxy its browser would use, and what
                          \* it found when it started
    acq_calls,            \* per key: _fetch_cookies_via_browser calls started so far
    overtaken,            \* the calls during whose fetch invalidate or
                          \* invalidate_all removed the entry of their key
    db,                   \* ProxyManager.db: the tokens and the proxy configuration
    route                 \* a call of get_proxy_url: position, argument, result

\* The state of the ProxyManager.
proxy_vars == <<db, route>>

vars == <<PLAYWRIGHT_AVAILABLE, _cache, _locks, lock_objs, _global_lock, now,
          tasks, acq_calls, overtaken, proxy_vars>>

(* ------------------------- pure helpers ------------------------------- *)

\* Python truthiness of an Optional[str]: None and "" are falsy.
Truthy(u) == u # NoUrl /\ u # ""

\* The proxy _fetch_cookies_via_browser launches the browser with (lines
\* 115-116): proxy_url when it is truthy, none otherwise.
BrowserProxy(proxy_url) == IF Truthy(proxy_url) THEN proxy_url ELSE NoUrl

\* _proxy_key (lines 41-42): proxy_url or "__no_proxy__"; None and "" are falsy.
_proxy_key(proxy_url) ==
    IF proxy_url = NoUrl \/ proxy_url = "" THEN "__no_proxy__" ELSE proxy_url

Keys == {_proxy_key(u) : u \in Urls}

\* Line 65 without the test: get_cookies goes on although playwright is missing.
UnavailableIgnored == FALSE

\* The test of line 65: playwright could not be imported.
Unavailable == ~PLAYWRIGHT_AVAILABLE

\* Line 54 with <= for <: an entry of age CACHE_TTL still counts as valid.
_is_valid_inclusive(key) ==
    key \in DOMAIN _cache /\ (now - _cache[key][3]) <= CACHE_TTL

\* _is_valid (lines 50-54).
_is_valid(key) ==
    key \in DOMAIN _cache /\ (now - _cache[key][3]) < CACHE_TTL

\* Line 72 without the shortcut: every call goes on to the lock.
FirstCheckNever(force_refresh, key) == FALSE

\* Line 72 serving an entry only at the instant it was stored.
FirstCheckOnlyNew(force_refresh, key) ==
    ~force_refresh /\ key \in DOMAIN _cache /\ now = _cache[key][3]

\* The cache-hit test of line 72, before any lock.
FirstCheck(force_refresh, key) == ~force_refresh /\ _is_valid(key)

\* Line 81 without the double check: every holder of the lock fetches.
ReCheckNever(force_refresh, key) == FALSE

\* Line 81 without "not force_refresh": a forced call that queued behind a
\* refresh is served from the cache.
ReCheckIgnoresForce(force_refresh, key) == _is_valid(key)

\* The cache-hit test of line 81, under the key's lock.
ReCheck(force_refresh, key) == ~force_refresh /\ _is_valid(key)

\* The value returned for a cache hit (lines 73-75, 82-83).
CachedResult(key) == <<_cache[key][1], _cache[key][2]>>

\* A fresh asyncio.Lock().
NewLock == [holder |-> NoTask, waiters |-> <<>>]

\* Lines 46-48 without the membership test of line 46: every lookup creates a
\* lock and overwrites the registry's.
_get_lock_fresh(key) ==
    [locks |-> [k \in DOMAIN _locks \cup {key} |->
                  IF k = key THEN Len(lock_objs) + 1 ELSE _locks[k]],
     objs  |-> Append(lock_objs, NewLock),
     lock  |-> Len(lock_objs) + 1]

\* Lines 46-48 with the new lock returned but not stored at line 47.
_get_lock_unregistered(key) ==
    IF key \in DOMAIN _locks
    THEN [locks |-> _locks, objs |-> lock_objs, lock |-> _locks[key]]
    ELSE [locks |-> _locks,
          objs  |-> Append(lock_objs, NewLock),
          lock  |-> Len(lock_objs) + 1]

\* _get_lock (lines 46-48), inside the global lock: the registry and the lock
\* instances after the lookup of key, and the lock instance returned.
_get_lock(key) ==
    IF key \in DOMAIN _locks
    THEN [locks |-> _locks, objs |-> lock_objs, lock |-> _locks[key]]
    ELSE [locks |-> [k \in DOMAIN _locks \cup {key} |->
                       IF k = key THEN Len(lock_objs) + 1 ELSE _locks[k]],
          objs  |-> Append(lock_objs, NewLock),
          lock  |-> Len(lock_objs) + 1]

\* Lines 45-48 with the global lock kept by the caller past the return.
GlobalLockKept(t) == t

\* _get_lock, lines 45 and 48: the global lock once _get_lock has returned to
\* t ("async with self._global_lock" is left by the return).
GlobalLockAfterGet(t) == NoTask

\* Line 79 with a lost wake-up: the call suspends without being put on the
\* lock's queue.
EnqueueLost(objs, l, t) == objs

\* asyncio.Lock.acquire without suspension: the lock is free and nobody queues.
CanTake(objs, l) == objs[l].holder = NoTask /\ objs[l].waiters = <<>>

\* The lock instances after t took lock l (entry of "async with lock", line 79).
Take(objs, l, t) == [objs EXCEPT ![l].holder = t]

\* The lock instances after t queued on lock l (suspended at line 79).
Enqueue(objs, l, t) == [objs EXCEPT ![l].waiters = Append(@, t)]

\* Line 79 as acquire() and a release() before each return statement, without
\* try/finally: an exception leaves the lock taken.
LockExitOnReturnOnly(objs, l, how) ==
    IF how = "return" THEN [objs EXCEPT ![l].holder = NoTask] ELSE objs

\* The lock instances after the holder left "async with lock" (line 79), by a
\* return statement or by an exception: __aexit__ releases in both cases.
LockExit(objs, l, how) == [objs EXCEPT ![l].holder = NoTask]

\* Line 89 with a sweep: storing also drops the expired entries of other keys.
StoreEvictsExpired(c, key, cookies, ua) ==
    [k \in {key} \cup {j \in DOMAIN c : now - c[j][3] < CACHE_TTL} |->
        IF k = key THEN <<cookies, ua, now>> ELSE c[k]]

\* The cache after line 89: self._cache[key] = (cookies, ua, time.time()).
Store(c, key, cookies, ua) ==
    [k \in DOMAIN c \cup {key} |-> IF k = key THEN <<cookies, ua, now>> ELSE c[k]]

\* Lines 92-94 with the key's entry dropped when the fetch gave nothing.
CacheDroppedOnFailure(c, key) ==
    [k \in DOMAIN c \ {key} |-> c[k]]

\* The cache after lines 92-94, the branch taken when the fetch gave nothing.
CacheAfterFailure(c, key) == c

\* Lines 92-94 with a retry: the call fetches once more instead of returning.
RetryOnNone(me) == [me EXCEPT !.pc = "fetching", !.inv = me.inv + 1]

\* The call after lines 92-94: it returns None (result is None since the call
\* started), with no second fetch.
ReturnOnNone(me) == [me EXCEPT !.pc = "ret94"]

\* Lines 206-207 without the del: the entry stays.
InvalidateCacheKeeps(c, key) == c

\* Lines 206-207 as a clear(): every entry goes.
InvalidateCacheAll(c, key) == [k \in {} |-> None]

\* The cache after lines 206-207: del self._cache[key] when present.
InvalidateCache(c, key) ==
    IF key \in DOMAIN c THEN [k \in DOMAIN c \ {key} |-> c[k]] ELSE c

\* Line 212 as the deletion of the "__no_proxy__" entry alone.
ClearCacheNoProxyOnly(c) == [k \in DOMAIN c \ {"__no_proxy__"} |-> c[k]]

\* Lines 203-207 inside "async with" on the key's lock, when the key has one.
InvalidateWaitsForKeyLock(key) ==
    IF key \in DOMAIN _locks THEN {_locks[key]} ELSE {}

\* The locks invalidate must find free to run (lines 203-208): none; it is a
\* plain function without await and takes no lock.
InvalidateWaitsFor(key) == {}

\* The cache after line 212: self._cache.clear().
ClearCache(c) == [k \in {} |-> None]

\* A call of get_cookies that has not started yet.
IdleTask ==
    [pc |-> "idle", key |-> "", proxy |-> NoUrl, force_refresh |-> FALSE,
     lock |-> 0, inv |-> 0, result |-> None, dropped |-> FALSE]

\* A fetch has stored cookies for key and the cache holds no entry for key:
\* invalidate or invalidate_all has removed it since (nothing else deletes).
EntryDropped(key) ==
    /\ key \notin DOMAIN _cache
    /\ \E a \in DOMAIN tasks : tasks[a].pc = "ret91" /\ tasks[a].key = key

\* The calls whose fetch is outstanding while the entry of their key, one of
\* ks, is in the cache.
Overtakes(ks) ==
    {t \in DOMAIN tasks : /\ tasks[t].pc = "fetching"
                          /\ tasks[t].key \in ks \cap DOMAIN _cache}

\* Positions at which get_cookies has ended: the return statement taken
\* (by line number), or an exception that left the coroutine.
Ended == {"ret67", "ret75", "ret83", "ret91", "ret94", "raised"}

\* A database without tokens and with the global proxy switched off.
EmptyDb ==
    [tokens |-> [i \in TokenIds |-> NoToken],
     proxy_enabled |-> FALSE, proxy_url |-> NoUrl]

\* No call of get_proxy_url has been made.
IdleRoute == [pc |-> "idle", token_id |-> None, result |-> NoUrl]

\* __init__ (lines 35-39), and the import-time flag (lines 10-14).
Init ==
    /\ db = EmptyDb
    /\ route = IdleRoute
    /\ PLAYWRIGHT_AVAILABLE \in BOOLEAN
    /\ _cache = [k \in {} |-> None]
    /\ _locks = [k \in {} |-> 0]
    /\ lock_objs = <<>>
    /\ _global_lock = NoTask
    /\ now = 0
    /\ tasks = [t \in Tasks |-> IdleTask]
    /\ acq_calls = [k \in Keys |-> 0]
    /\ overtaken = {}

(* ----------------------------- actions -------------------------------- *)

\* Lines 80-86, run by task t (locals: me) once it holds lock l of objs: the
\* re-check, then either the return of line 83 (leaving the lock) or the start
\* of _fetch_cookies_via_browser, where the coroutine suspends.
UnderLock(t, me, l, objs) ==
    LET key == me.key
    IN  IF ReCheck(me.force_refresh, key)
        THEN /\ lock_objs' = LockExit(objs, l, "return")
             /\ tasks' = [tasks EXCEPT ![t] =
                    [me EXCEPT !.pc = "ret83", !.lock = l,
                               !.result = CachedResult(key)]]
             /\ UNCHANGED acq_calls
        ELSE /\ lock_objs' = objs
             /\ acq_calls' = [acq_calls EXCEPT ![key] = @ + 1]
             /\ tasks' = [tasks EXCEPT ![t] =
                    [me EXCEPT !.pc = "fetching", !.lock = l,
                               !.inv = acq_calls[me.key] + 1]]

\* Lines 78-79, run by task t (locals: me): _get_lock, then "async with lock".
\* The coroutine suspends at line 45 when the global lock is taken, and at
\* line 79 when the key's lock is taken or has waiters.
LockPath(t, me) ==
    LET key == me.key
    IN  IF _global_lock # NoTask
        THEN /\ tasks' = [tasks EXCEPT ![t] = [me EXCEPT !.pc = "wait_global"]]
             /\ UNCHANGED <<_locks, lock_objs, _global_lock, acq_calls>>
        ELSE LET got  == _get_lock(key)
                 objs == got.objs
                 l    == got.lock
             IN  /\ _locks' = got.locks
                 /\ _global_lock' = GlobalLockAfterGet(t)
                 /\ IF CanTake(objs, l)
                    THEN UnderLock(t, me, l, Take(objs, l, t))
                    ELSE /\ lock_objs' = Enqueue(objs, l, t)
                         /\ tasks' = [tasks EXCEPT ![t] =
                                [me EXCEPT !.pc = "waiting", !.lock = l]]
                         /\ UNCHANGED acq_calls

\* get_cookies(proxy_url, force_refresh) starts as task t: lines 65-86, up to
\* its first suspension point or its return.  Tasks are numbered in the order
\* in which they start.
Call(t, proxy_url, force_refresh) ==
    LET key == _proxy_key(proxy_url)
        me  == [IdleTask EXCEPT !.key = key, !.force_refresh = force_refresh,
                                !.proxy = BrowserProxy(proxy_url),
                                !.dropped = EntryDropped(key)]
    IN  /\ tasks[t].pc = "idle"
        /\ \A s \in Tasks : s < t => tasks[s].pc # "idle"
        /\ IF Unavailable
           THEN /\ tasks' = [tasks EXCEPT ![t] = [me EXCEPT !.pc = "ret67"]]
                /\ UNCHANGED <<_locks, lock_objs, _global_lock, acq_calls>>
           ELSE IF FirstCheck(force_refresh, key)
           THEN /\ tasks' = [tasks EXCEPT ![t] =
                       [me EXCEPT !.pc = "ret75", !.result = CachedResult(key)]]
                /\ UNCHANGED <<_locks, lock_objs, _global_lock, acq_calls>>
           ELSE LockPath(t, me)
        /\ UNCHANGED <<proxy_vars, overtaken, PLAYWRIGHT_AVAILABLE, _cache,
                       now>>

\* Task t, suspended at a lock, is resumed by the event loop: at line 45 once
\* the global lock is free, at line 79 once the key's lock was released and t
\* is the first waiter (asyncio.Lock wakes its waiters in FIFO order).
Resume(t) ==
    LET me == tasks[t]
    IN  /\ me.pc \in {"wait_global", "waiting"}
        /\ IF me.pc = "wait_global"
           THEN /\ _global_lock = NoTask
                /\ LockPath(t, me)
           ELSE /\ lock_objs[me.lock].holder = NoTask
                /\ lock_objs[me.lock].waiters # <<>>
                /\ Head(lock_objs[me.lock].waiters) = t
                /\ UnderLock(t, me, me.lock,
                       [lock_objs EXCEPT ![me.lock].holder = t,
                                         ![me.lock].waiters = Tail(@)])
                /\ UNCHANGED <<_locks, _global_lock>>
        /\ UNCHANGED <<proxy_vars, overtaken, PLAYWRIGHT_AVAILABLE, _cache,
                       now>>

\* How a call of _fetch_cookies_via_browser ends: a cookie set (line 187),
\* None (lines 179 and 201: every Exception is caught at line 189), or a
\* BaseException such as asyncio.CancelledError, which line 189 does not catch.
Outcomes == {"cookies", "none", "raise"}

\* _fetch_cookies_via_browser returns to task t, which runs lines 87-94 and
\* leaves "async with lock".  The cookie set of the n-th fetch for a key is n.
AcquirerReturn(t, outcome) ==
    LET me  == tasks[t]
        key == me.key
    IN  /\ me.pc = "fetching"
        /\ lock_objs' = LockExit(lock_objs, me.lock,
                            IF outcome = "raise" THEN "raise" ELSE "return")
        /\ IF outcome = "cookies"
           THEN /\ _cache' = Store(_cache, key, me.inv, _DEFAULT_UA)
                /\ tasks' = [tasks EXCEPT ![t] =
                       [me EXCEPT !.pc = "ret91",
                                  !.result = <<me.inv, _DEFAULT_UA>>]]
           ELSE /\ _cache' = CacheAfterFailure(_cache, key)
                /\ tasks' = [tasks EXCEPT ![t] =
                       IF outcome = "none" THEN ReturnOnNone(me)
                                           ELSE [me EXCEPT !.pc = "raised"]]
        /\ UNCHANGED <<proxy_vars, overtaken, PLAYWRIGHT_AVAILABLE, _locks,
                       _global_lock, now, acq_calls>>

\* invalidate(proxy_url), lines 203-208.
Invalidate(proxy_url) ==
    /\ \A l \in InvalidateWaitsFor(_proxy_key(proxy_url)) :
          lock_objs[l].holder = NoTask
    /\ _cache' = InvalidateCache(_cache, _proxy_key(proxy_url))
    /\ overtaken' = overtaken \cup Overtakes({_proxy_key(proxy_url)})
    /\ UNCHANGED <<proxy_vars, PLAYWRIGHT_AVAILABLE, _locks, lock_objs,
                   _global_lock, now, tasks, acq_calls>>

\* invalidate_all(), lines 210-213.
InvalidateAll ==
    /\ _cache' = ClearCache(_cache)
    /\ overtaken' = overtaken \cup Overtakes(DOMAIN _cache)
    /\ UNCHANGED <<proxy_vars, PLAYWRIGHT_AVAILABLE, _locks, lock_objs,
                   _global_lock, now, tasks, acq_calls>>

\* time.time() advances to the next instant of the grid.
Tick ==
    /\ now < MaxTicks * TimeUnit
    /\ now' = now + TimeUnit
    /\ UNCHANGED <<proxy_vars, overtaken, PLAYWRIGHT_AVAILABLE, _cache, _locks,
                   lock_objs, _global_lock, tasks, acq_calls>>

Next ==
    \/ \E t \in Tasks, u \in Urls, f \in BOOLEAN : Call(t, u, f)
    \/ \E t \in Tasks : Resume(t)
    \/ \E t \in Tasks, o \in Outcomes : AcquirerReturn(t, o)
    \/ \E u \in Urls : Invalidate(u)
    \/ InvalidateAll
    \/ Tick

Spec == Init /\ [][Next]_vars

\* The event loop resumes a call whose lock wait can end, and every call of
\* _fetch_cookies_via_browser returns in the end (its waits are bounded:
\* lines 131 and 141-167), by a result, by None or by an exception.
Fairness ==
    \A t \in Tasks :
        /\ WF_vars(Resume(t))
        /\ WF_vars(\E o \in Outcomes : AcquirerReturn(t, o))

\* The steps of Next with the clock standing still: an entry stops being
\* valid by invalidate or invalidate_all, which lines 72 and 81 see exactly as
\* they see an expired entry.
NextLive ==
    \/ \E t \in Tasks, u \in Urls, f \in BOOLEAN : Call(t, u, f)
    \/ \E t \in Tasks : Resume(t)
    \/ \E t \in Tasks, o \in Outcomes : AcquirerReturn(t, o)
    \/ \E u \in Urls : Invalidate(u)
    \/ InvalidateAll

SpecLive == Init /\ [][NextLive]_vars /\ Fairness

\* The cookie manager called with every proxy_url of AllUrls, the clock
\* standing still.
NextKeys ==
    \/ \E t \in Tasks, u \in AllUrls, f \in BOOLEAN : Call(t, u, f)
    \/ \E t \in Tasks : Resume(t)
    \/ \E t \in Tasks, o \in Outcomes : AcquirerReturn(t, o)
    \/ \E u \in AllUrls : Invalidate(u)
    \/ InvalidateAll

SpecKeys == Init /\ [][NextKeys]_vars

(* --------------------------- ProxyManager ----------------------------- *)

\* Lines 23-25: a token_id was given, db.get_token found the token, and the
\* token's proxy_url is truthy.
HasOverride(d, token_id) ==
    /\ token_id # None
    /\ d.tokens[token_id[1]] # NoToken
    /\ Truthy(d.tokens[token_id[1]])

\* Lines 30-32 without the test of proxy_enabled.
GlobalProxyIgnoresEnabled(d) ==
    IF Truthy(d.proxy_url) THEN d.proxy_url ELSE NoUrl

\* Lines 29-32: the global proxy when it is enabled and truthy, else None.
GlobalProxy(d) ==
    IF d.proxy_enabled /\ Truthy(d.proxy_url) THEN d.proxy_url ELSE NoUrl

\* get_proxy_url(token_id) (lines 23-32) on a database d that no one changes
\* while it runs.
get_proxy_url(d, token_id) ==
    IF HasOverride(d, token_id) THEN d.tokens[token_id[1]] ELSE GlobalProxy(d)

\* get_proxy_url(token_id) starts: lines 23-26.  It returns the token's proxy
\* at line 26, or goes on to "await self.db.get_proxy_config()" at line 29.
RouteStart(token_id) ==
    /\ route.pc \in {"idle", "done"}
    /\ route' = IF HasOverride(db, token_id)
                THEN [pc |-> "done", token_id |-> token_id,
                      result |-> db.tokens[token_id[1]]]
                ELSE [pc |-> "config", token_id |-> token_id, result |-> NoUrl]
    /\ UNCHANGED <<db, PLAYWRIGHT_AVAILABLE, _cache, _locks, lock_objs,
                   _global_lock, now, tasks, acq_calls, overtaken>>

\* get_proxy_url reads the configuration and returns: lines 29-32.
RouteConfig ==
    /\ route.pc = "config"
    /\ route' = [route EXCEPT !.pc = "done", !.result = GlobalProxy(db)]
    /\ UNCHANGED <<db, PLAYWRIGHT_AVAILABLE, _cache, _locks, lock_objs,
                   _global_lock, now, tasks, acq_calls, overtaken>>

\* update_proxy_config(enabled, proxy_url), lines 34-36.
UpdateProxyConfig(enabled, proxy_url) ==
    /\ db' = [db EXCEPT !.proxy_enabled = enabled, !.proxy_url = proxy_url]
    /\ UNCHANGED <<route, PLAYWRIGHT_AVAILABLE, _cache, _locks, lock_objs,
                   _global_lock, now, tasks, acq_calls, overtaken>>

\* The ProxyManager on every database of tokens and configuration; the cookie
\* manager is as constructed and idle.
InitRoute ==
    /\ db \in [tokens : [TokenIds -> TokenRows],
                proxy_enabled : BOOLEAN, proxy_url : ConfigUrls]
    /\ route = IdleRoute
    /\ PLAYWRIGHT_AVAILABLE = TRUE
    /\ _cache = [k \in {} |-> None]
    /\ _locks = [k \in {} |-> 0]
    /\ lock_objs = <<>>
    /\ _global_lock = NoTask
    /\ now = 0
    /\ tasks = [t \in Tasks |-> IdleTask]
    /\ acq_calls = [k \in Keys |-> 0]
    /\ overtaken = {}

NextRoute ==
    \/ \E token_id \in TokenArgs : RouteStart(token_id)
    \/ RouteConfig
    \/ \E enabled \in BOOLEAN, u \in ConfigUrls : UpdateProxyConfig(enabled, u)

SpecRoute == InitRoute /\ [][NextRoute]_vars

(* ------------------- the single-flight scenario ----------------------- *)

\* playwright is installed, every call is get_cookies(_, False), every browser
\* fetch yields cookies, nothing is invalidated, and the clock stays below
\* CACHE_TTL, so that no entry expires.
InitSingleFlight == Init /\ PLAYWRIGHT_AVAILABLE

NextSingleFlight ==
    \/ \E t \in Tasks, u \in Urls : Call(t, u, FALSE)
    \/ \E t \in Tasks : Resume(t)
    \/ \E t \in Tasks : AcquirerReturn(t, "cookies")
    \/ Tick /\ now' < CACHE_TTL

SpecSingleFlight == InitSingleFlight /\ [][NextSingleFlight]_vars

(* ------------------------------ claims -------------------------------- *)

\* The tasks whose _fetch_cookies_via_browser call for key k is outstanding.
InFlight(k) == {t \in Tasks : tasks[t].pc = "fetching" /\ tasks[t].key = k}

\* The tasks inside "async with lock" or queued for it, for key k.
AtLock(k) ==
    {t \in Tasks : tasks[t].pc \in {"waiting", "fetching"} /\ tasks[t].key = k}

\* An entry for k exists and is younger than CACHE_TTL.
Fresh(k) == k \in DOMAIN _cache /\ now - _cache[k][3] < CACHE_TTL

\* Task t takes its first step of get_cookies in this transition.
Starts(t) == tasks[t].pc = "idle" /\ tasks'[t].pc # "idle"

\* C1: in every reachable state, whatever calls of get_cookies (forced or not),
\* invalidate and invalidate_all were interleaved, at most one call of
\* _fetch_cookies_via_browser is outstanding for each key.
C1_OneAcquirerPerKey == \A k \in Keys : Cardinality(InFlight(k)) <= 1

\* One call fetches for a key while a forced and an unforced call of the same
\* key queue on its lock.
C1_Witness ==
    \E a, b, c \in Tasks :
        /\ tasks[a].pc = "fetching"
        /\ tasks[b].pc = "waiting" /\ tasks[b].force_refresh
        /\ tasks[c].pc = "waiting" /\ ~tasks[c].force_refresh
        /\ tasks[a].key = tasks[b].key /\ tasks[b].key = tasks[c].key

\* C2: in the single-flight scenario (unforced calls only, a cold cache, every
\* fetch succeeds, no invalidation, CACHE_TTL never reached) the browser fetch
\* runs at most once per key, and every call that has returned for a key has
\* seen exactly one fetch for it and returns that fetch's (cookies, user agent).
C2_SingleFlight ==
    \A k \in Keys :
        /\ acq_calls[k] <= 1
        /\ \A t \in Tasks :
              (tasks[t].key = k /\ tasks[t].pc \in Ended) =>
                 /\ acq_calls[k] = 1
                 /\ \E r \in Tasks :
                       /\ tasks[r].key = k
                       /\ tasks[r].pc = "ret91"
                       /\ tasks[t].result = <<tasks[r].inv, _DEFAULT_UA>>

\* All calls were for one key and have returned, one after queueing on the lock
\* behind the fetch, one from the cache without any lock.
C2_Witness ==
    /\ \A t \in Tasks : tasks[t].key = "pA" /\ tasks[t].pc \in Ended
    /\ \E t \in Tasks : tasks[t].pc = "ret83"
    /\ \E t \in Tasks : tasks[t].pc = "ret75"

\* C3: an unforced call that finds a fresh entry for its key at line 72
\* returns that entry's (cookies, user agent) in the same step, and the lock
\* registry, every lock and the global lock are left as they were, whoever
\* holds the key's lock at that moment.
C3_HitTakesNoLock ==
    [][\A t \in Tasks :
          (/\ Starts(t)
           /\ ~tasks'[t].force_refresh
           /\ Fresh(tasks'[t].key))
          => /\ tasks'[t].pc = "ret75"
             /\ tasks'[t].result =
                    <<_cache[tasks'[t].key][1], _cache[tasks'[t].key][2]>>
             /\ UNCHANGED <<_locks, lock_objs, _global_lock, acq_calls>>]_vars

\* A call was served from the cache after a forced refresh of the same key had
\* taken the key's lock, and that refresh is still fetching.
C3_Witness ==
    \E a, b \in Tasks :
        /\ a < b
        /\ tasks[a].key = tasks[b].key
        /\ tasks[a].pc = "fetching" /\ tasks[a].force_refresh
        /\ lock_objs[_locks[tasks[a].key]].holder = a
        /\ tasks[b].pc = "ret75"

\* The state part of C4.
C4_Separate ==
    /\ _global_lock = NoTask
    /\ \A t \in Tasks : tasks[t].pc # "wait_global"
    /\ \A k1, k2 \in DOMAIN _locks : k1 # k2 => _locks[k1] # _locks[k2]
    /\ \A t \in Tasks :
          tasks[t].pc \in {"waiting", "fetching"} =>
             /\ tasks[t].key \in DOMAIN _locks
             /\ tasks[t].lock = _locks[tasks[t].key]
    /\ \A l \in DOMAIN lock_objs :
          /\ lock_objs[l].holder # NoTask =>
                 tasks[lock_objs[l].holder].lock = l
          /\ \A i \in DOMAIN lock_objs[l].waiters :
                 tasks[lock_objs[l].waiters[i]].lock = l

\* The step part of C4: a call that does not return at once and finds no
\* other call of its own key holding or queueing on the key's lock starts its
\* fetch in that same step, whatever calls for other keys are doing.
C4_StartsAtOnce ==
    \A t \in Tasks :
        (/\ Starts(t)
         /\ tasks'[t].pc \notin Ended
         /\ AtLock(tasks'[t].key) = {})
        => /\ tasks'[t].pc = "fetching"
           /\ lock_objs'[_locks'[tasks'[t].key]].holder = t

\* C4: the global lock is free at every suspension point (so never held while
\* a fetch is outstanding or a caller queues), distinct keys have distinct
\* locks, a call holds or queues on the lock of its own key only, and a call
\* for a key that no other call is working on starts its fetch at once: a
\* call for one key is never behind a call for another.
C4_PerKeyIsolation == []C4_Separate /\ [][C4_StartsAtOnce]_vars

\* A call for one key started after a call for the other key began to fetch,
\* ran its own fetch and returned while that first fetch is still outstanding.
C4_Witness ==
    \E a, b \in Tasks :
        /\ a < b
        /\ tasks[a].key # tasks[b].key
        /\ tasks[a].pc = "fetching"
        /\ tasks[b].pc = "ret91"


\* The browser fetch of task t starts in this transition, as one more call
\* for its key and no call for any other key.
StartsFetch(t) ==
    /\ tasks'[t].pc = "fetching"
    /\ tasks'[t].inv # 0
    /\ acq_calls' = [acq_calls EXCEPT ![tasks'[t].key] = @ + 1]

\* A call runs the browser fetch at most once: from the fetch it goes to a
\* return of lines 91 or 94 or ends by the exception, and stays there.
FetchesOnce ==
    \A t \in Tasks :
        /\ tasks[t].pc = "fetching" =>
              tasks'[t].pc \in {"fetching", "ret91", "ret94", "raised"}
        /\ tasks[t].pc \in Ended => tasks'[t] = tasks[t]

\* The state part of C5: a forced call that has ended went through the fetch,
\* and a forced call that is fetching holds the lock of its key, alone.
C5_ForcedState ==
    \A t \in Tasks :
        (PLAYWRIGHT_AVAILABLE /\ tasks[t].force_refresh) =>
           /\ tasks[t].pc \in Ended =>
                 tasks[t].pc \in {"ret91", "ret94", "raised"} /\ tasks[t].inv # 0
           /\ tasks[t].pc = "fetching" =>
                 /\ lock_objs[_locks[tasks[t].key]].holder = t
                 /\ InFlight(tasks[t].key) = {t}

\* The step part of C5, for a forced call t: it never returns from the cache,
\* neither at line 75 when it starts nor at line 83 when it gets the lock after
\* queueing; it starts exactly one fetch; and when the fetch yields cookies
\* the key's entry is that result, stamped with the current time.
C5_ForcedStep ==
    /\ FetchesOnce
    /\ \A t \in Tasks :
          (PLAYWRIGHT_AVAILABLE /\ tasks'[t].force_refresh) =>
             /\ Starts(t) =>
                   /\ tasks'[t].pc \in {"fetching", "waiting"}
                   /\ tasks'[t].pc = "fetching" => StartsFetch(t)
             /\ (tasks[t].pc = "waiting" /\ tasks'[t].pc # "waiting") =>
                   StartsFetch(t)
             /\ (tasks[t].pc = "fetching" /\ tasks'[t].pc = "ret91") =>
                   /\ tasks'[t].key \in DOMAIN _cache'
                   /\ _cache'[tasks[t].key] = <<tasks[t].inv, _DEFAULT_UA, now>>
                   /\ tasks'[t].result = <<tasks[t].inv, _DEFAULT_UA>>
                   /\ tasks[t].key \in DOMAIN _cache =>
                         _cache[tasks[t].key][1] # tasks[t].inv

C6_TtlExpiry ==
    [][/\ FetchesOnce
       /\ \A t \in Tasks :
            LET k == tasks'[t].key IN
            ~tasks'[t].force_refresh =>
              /\ (Starts(t) /\ k \in DOMAIN _cache) =>
                    IF now - _cache[k][3] < CACHE_TTL
                    THEN /\ tasks'[t].pc = "ret75"
                         /\ tasks'[t].result = <<_cache[k][1], _cache[k][2]>>
                         /\ UNCHANGED acq_calls
                    ELSE /\ tasks'[t].pc \in {"fetching", "waiting"}
                         /\ AtLock(k) = {} => StartsFetch(t)
              /\ (tasks[t].pc = "waiting" /\ tasks'[t].pc # "waiting"
                    /\ k \in DOMAIN _cache) =>
                    IF now - _cache[k][3] < CACHE_TTL
                    THEN /\ tasks'[t].pc = "ret83"
                         /\ tasks'[t].result = <<_cache[k][1], _cache[k][2]>>
                         /\ UNCHANGED acq_calls
                    ELSE StartsFetch(t)]_vars

\* An unforced call fetches for a key whose entry has just reached the age
\* CACHE_TTL, after another call was served that entry from the cache.
C6_Witness ==
    \E a, b \in Tasks :
        /\ a < b
        /\ tasks[a].key = tasks[b].key
        /\ tasks[a].pc = "ret75"
        /\ tasks[b].pc = "fetching" /\ ~tasks[b].force_refresh
        /\ tasks[b].key \in DOMAIN _cache
        /\ _cache[tasks[b].key][1] = tasks[a].result[1]
        /\ now - _cache[tasks[b].key][3] = CACHE_TTL


\* The cache as invalidate(proxy_url) leaves it has no entry for the key of
\* proxy_url, whatever the cache holds.
C7_Removes ==
    \A u \in Urls :
        _proxy_key(u) \notin DOMAIN InvalidateCache(_cache, _proxy_key(u))

\* An unforced call that starts while its key has no entry, with playwright
\* installed, starts one fetch for the key in that step.
ColdCallFetches(t) ==
    (/\ Starts(t)
     /\ PLAYWRIGHT_AVAILABLE
     /\ ~tasks'[t].force_refresh
     /\ tasks'[t].key \notin DOMAIN _cache)
    => StartsFetch(t)

C8_FailureKeepsCache ==
    [][\A t \in Tasks :
          LET k == tasks[t].key IN
          /\ (tasks[t].pc = "fetching" /\ tasks'[t].pc = "ret94") =>
                /\ tasks'[t].result = None
                /\ _cache' = _cache
                /\ \A j \in Keys : Fresh(j)' <=> Fresh(j)
          /\ (tasks[t].pc = "fetching" /\ tasks'[t].pc = "ret91") =>
                /\ tasks'[t].result = <<tasks[t].inv, _DEFAULT_UA>>
                /\ DOMAIN _cache' = DOMAIN _cache \cup {k}
                /\ _cache'[k] = <<tasks[t].inv, _DEFAULT_UA, now>>
                /\ Fresh(k)'
                /\ \A j \in DOMAIN _cache \ {k} : _cache'[j] = _cache[j]]_vars

\* A call's fetch gave nothing for a key whose entry, stored by an earlier
\* call, is expired and still in place, and a later call is fetching for it.
C8_Witness ==
    \E a, b, c \in Tasks :
        /\ a < b /\ b < c
        /\ tasks[a].key = tasks[b].key /\ tasks[b].key = tasks[c].key
        /\ tasks[a].pc = "ret91"
        /\ tasks[b].pc = "ret94" /\ tasks[b].result = None
        /\ tasks[b].key \in DOMAIN _cache
        /\ _cache[tasks[b].key][1] = tasks[a].inv
        /\ ~Fresh(tasks[b].key)
        /\ tasks[c].pc = "fetching" /\ ~tasks[c].force_refresh

\* C9: a lock is held only by a call that is at its browser fetch, inside
\* "async with lock" on that very lock, which is the lock of its key; so a
\* call that has ended, by the returns of lines 83, 91 or 94 or by an
\* exception out of the fetch, holds no lock.
C9_LockReleased ==
    /\ \A l \in DOMAIN lock_objs :
          LET h == lock_objs[l].holder IN
          h # NoTask =>
             /\ tasks[h].pc = "fetching"
             /\ tasks[h].lock = l
             /\ _locks[tasks[h].key] = l
    /\ \A t \in Tasks :
          tasks[t].pc \in Ended =>
             \A l \in DOMAIN lock_objs : lock_objs[l].holder # t

\* Three calls for one key have ended, one by an exception out of the fetch,
\* one by the return of line 91 and one by the re-check hit of line 83, and the
\* key's lock is free.
C9_Witness ==
    \E a, b, c \in Tasks :
        /\ tasks[a].key = tasks[b].key /\ tasks[b].key = tasks[c].key
        /\ tasks[a].pc = "raised"
        /\ tasks[b].pc = "ret91"
        /\ tasks[c].pc = "ret83"
        /\ lock_objs[_locks[tasks[a].key]].holder = NoTask

\* The state part of C10, on the cache as lines 206-207 leave it: the key is
\* gone, every other entry is as before, a cache without the key is returned
\* as it is, and invalidating the key a second time changes nothing.
C10_Idempotent ==
    \A k \in Keys :
        LET c == InvalidateCache(_cache, k) IN
        /\ DOMAIN c = DOMAIN _cache \ {k}
        /\ \A j \in DOMAIN c : c[j] = _cache[j]
        /\ k \notin DOMAIN _cache => c = _cache
        /\ InvalidateCache(c, k) = c

\* The step part of C10.
C10_Frame ==
    \A u \in Urls :
        LET k == _proxy_key(u) IN
        Invalidate(u) =>
           /\ DOMAIN _cache' = DOMAIN _cache \ {k}
           /\ \A j \in DOMAIN _cache \ {k} : _cache'[j] = _cache[j]
           /\ k \notin DOMAIN _cache => _cache' = _cache
           /\ UNCHANGED <<_locks, lock_objs, _global_lock, tasks>>

\* C10: invalidate(K) removes K's entry when there is one and changes nothing
\* else: every other key keeps its entry, the lock registry and every lock
\* (held or free, with its waiters) stay as they are, nothing changes at all
\* when K has no entry, and a second invalidate(K) changes nothing.
C10_InvalidateOnlyKey == []C10_Idempotent /\ [][C10_Frame]_vars

\* A key whose fetch had stored cookies has no entry while a forced call holds
\* its lock and another queues on it, and the other key still has its entry.
C10_Witness ==
    \E a, b \in Tasks, k \in Keys :
        /\ tasks[a].key = k /\ tasks[b].key = k
        /\ tasks[a].pc = "ret91"
        /\ k \notin DOMAIN _cache
        /\ tasks[b].pc = "fetching"
        /\ lock_objs[_locks[k]].holder = b
        /\ \E j \in DOMAIN _cache : j # k

\* The state part of C11, on the cache as line 212 leaves it: no key has an
\* entry, and clearing a second time changes nothing.
C11_Cleared ==
    LET c == ClearCache(_cache) IN
    /\ DOMAIN c = {}
    /\ ClearCache(c) = c

\* The step part of C11: invalidate_all leaves no entry and touches neither
\* the lock registry nor any lock nor any call; and an unforced call that
\* starts for a key without an entry, never cached or cleared alike, goes to
\* the key's lock, where it starts one fetch when no other call of the key is
\* there and queues without a fetch otherwise.
C11_Step ==
    /\ InvalidateAll =>
          /\ DOMAIN _cache' = {}
          /\ UNCHANGED <<_locks, lock_objs, _global_lock, tasks, acq_calls>>
    /\ \A t \in Tasks :
          LET k == tasks'[t].key IN
          (/\ Starts(t)
           /\ PLAYWRIGHT_AVAILABLE
           /\ ~tasks'[t].force_refresh
           /\ k \notin DOMAIN _cache)
          => /\ tasks'[t].pc \in {"fetching", "waiting"}
             /\ AtLock(k) = {} => StartsFetch(t)
             /\ AtLock(k) # {} => tasks'[t].pc = "waiting" /\ UNCHANGED acq_calls

\* C11: invalidate_all leaves the cache without any entry and the lock
\* registry and the locks as they were, a second invalidate_all changes
\* nothing, and for every key that had an entry the next get_cookies(K, False)
\* does what it does for a key that never had one.
C11_InvalidateAll == []C11_Cleared /\ [][C11_Step]_vars

\* Fetches had stored cookies for both keys, the cache is empty, both locks
\* are still registered, and an unforced call that started on the emptied
\* cache is fetching.
C11_Witness ==
    \E a, b, c \in Tasks :
        /\ tasks[a].pc = "ret91" /\ tasks[b].pc = "ret91"
        /\ tasks[a].key # tasks[b].key
        /\ DOMAIN _cache = {}
        /\ DOMAIN _locks = Keys
        /\ tasks[c].dropped /\ ~tasks[c].force_refresh
        /\ tasks[c].pc = "fetching"

\* Call t is first in the queue of its key's lock, the lock has just been
\* released, and the last fetch started for the key completed with cookies:
\* t queued behind that fetch (a call that queues later finds a longer queue or
\* a newer fetch) and is the next to run, at the re-check of line 81.
HandedOver(t) ==
    /\ tasks[t].pc = "waiting"
    /\ lock_objs[tasks[t].lock].holder = NoTask
    /\ lock_objs[tasks[t].lock].waiters # <<>>
    /\ Head(lock_objs[tasks[t].lock].waiters) = t
    /\ \E a \in Tasks :
          /\ tasks[a].pc = "ret91"
          /\ tasks[a].key = tasks[t].key
          /\ tasks[a].inv = acq_calls[tasks[t].key]

C12_ServedState ==
    \A t \in Tasks :
        tasks[t].pc \in {"ret75", "ret83"} =>
           /\ ~tasks[t].force_refresh
           /\ tasks[t].inv = 0
           /\ \E a \in Tasks \ {t} :
                 /\ tasks[a].pc = "ret91"
                 /\ tasks[a].key = tasks[t].key
                 /\ tasks[a].result = tasks[t].result

\* The step part of C12: the step that completes a fetch with cookies leaves
\* a fresh entry holding them; while the key's entry is fresh, an unforced
\* call that starts returns it at line 75, and an unforced call that leaves
\* the queue of the key's lock returns it at line 83, neither with a fetch.
C12_ServedStep ==
    \A t \in Tasks :
        LET k == tasks'[t].key IN
        /\ (tasks[t].pc = "fetching" /\ tasks'[t].pc = "ret91") =>
              /\ Fresh(tasks[t].key)'
              /\ tasks'[t].result = <<_cache'[k][1], _cache'[k][2]>>
        /\ (~tasks'[t].force_refresh /\ Fresh(k)) =>
              /\ Starts(t) =>
                    /\ tasks'[t].pc = "ret75"
                    /\ tasks'[t].result = <<_cache[k][1], _cache[k][2]>>
                    /\ UNCHANGED <<acq_calls, _cache>>
              /\ (tasks[t].pc = "waiting" /\ tasks'[t].pc # "waiting") =>
                    /\ tasks'[t].pc = "ret83"
                    /\ tasks'[t].result = <<_cache[k][1], _cache[k][2]>>
                    /\ UNCHANGED <<acq_calls, _cache>>

C13_State ==
    ~PLAYWRIGHT_AVAILABLE =>
       /\ \A t \in Tasks :
             /\ tasks[t].pc \in {"idle", "ret67"}
             /\ tasks[t].result = None
             /\ tasks[t].lock = 0 /\ tasks[t].inv = 0
       /\ \A k \in Keys : acq_calls[k] = 0
       /\ DOMAIN _locks = {} /\ lock_objs = <<>> /\ _global_lock = NoTask
       /\ DOMAIN _cache = {}

\* The step part of C13: without playwright a call, forced or not, returns
\* None at line 67 in the step in which it starts, and that step changes
\* neither the cache nor the lock registry nor any lock nor the fetch count.
C13_Step ==
    \A t \in Tasks :
        (Starts(t) /\ ~PLAYWRIGHT_AVAILABLE) =>
           /\ tasks'[t].pc = "ret67"
           /\ tasks'[t].result = None
           /\ UNCHANGED <<_cache, _locks, lock_objs, _global_lock, acq_calls>>

\* C13: when playwright is not installed every get_cookies returns None at
\* line 67, without a call of _fetch_cookies_via_browser, without creating or
\* taking a lock, without a change of the cache, and without an exception.
C13_Unavailable == []C13_State /\ [][C13_Step]_vars

\* Without playwright, a forced call and an unforced call for different keys
\* have both returned at line 67.
C13_Witness ==
    /\ ~PLAYWRIGHT_AVAILABLE
    /\ \E a, b \in Tasks :
          /\ tasks[a].pc = "ret67" /\ tasks[a].force_refresh
          /\ tasks[b].pc = "ret67" /\ ~tasks[b].force_refresh
          /\ tasks[a].key # tasks[b].key

\* The calls for key k that have started a browser fetch.
Fetchers(k) == {t \in Tasks : tasks[t].key = k /\ tasks[t].inv # 0}

\* The state part of C14: the fetches started for a key are as many as the
\* calls for the key that have started one, so no call has started two; and a
\* call that returned at line 94 returned None.
C14_State ==
    /\ \A k \in Keys : acq_calls[k] = Cardinality(Fetchers(k))
    /\ \A t \in Tasks : tasks[t].pc = "ret94" =>
          tasks[t].result = None /\ tasks[t].inv # 0

\* The step part of C14: the step that ends the fetch of a call ends the call,
\* at line 91, at line 94 or by the exception, and starts no fetch; after a
\* fetch that gave nothing the call is at line 94 with None; a call that has
\* ended does nothing more; and a step starts at most one fetch, for a call
\* that had not fetched before.
C14_Step ==
    /\ \A t \in Tasks :
          /\ (tasks[t].pc = "fetching" /\ tasks'[t] # tasks[t]) =>
                /\ tasks'[t].pc \in {"ret91", "ret94", "raised"}
                /\ tasks'[t].inv = tasks[t].inv
                /\ UNCHANGED acq_calls
          /\ (tasks[t].pc = "fetching" /\ tasks'[t].pc = "ret94") =>
                tasks'[t].result = None
          /\ tasks[t].pc \in Ended => tasks'[t] = tasks[t]
          /\ tasks'[t].inv # tasks[t].inv =>
                /\ tasks[t].inv = 0
                /\ tasks[t].pc \in {"idle", "waiting"}
                /\ tasks'[t].pc = "fetching"
    /\ acq_calls' # acq_calls =>
          \E t \in Tasks :
             /\ tasks[t].inv = 0 /\ tasks'[t].inv # 0
             /\ acq_calls' = [acq_calls EXCEPT ![tasks'[t].key] = @ + 1]

\* C14: one call of get_cookies calls _fetch_cookies_via_browser at most once;
\* when that fetch gives nothing the call returns None at line 94 and does
\* not fetch again.
C14_NoRetry == []C14_State /\ [][C14_Step]_vars

\* The only call so far has returned None at line 94 after its one fetch: one
\* fetch was started for its key, the key has no entry and its lock is free.
C14_Witness ==
    \E t \in Tasks :
        /\ tasks[t].pc = "ret94" /\ tasks[t].result = None
        /\ acq_calls[tasks[t].key] = 1
        /\ tasks[t].key \notin DOMAIN _cache
        /\ lock_objs[tasks[t].lock].holder = NoTask
        /\ \A s \in Tasks \ {t} : tasks[s].pc = "idle"

\* What C15 says get_proxy_url(token_id) returns on database d: the proxy of
\* the token when an id is given, the token exists and its proxy is neither
\* None nor empty; else the global proxy when it is enabled and neither None
\* nor empty; else None.
ResolveRoute(d, token_id) ==
    LET row == IF token_id = None THEN NoToken ELSE d.tokens[token_id[1]]
    IN  IF row \notin {NoToken, NoUrl, ""} THEN row
        ELSE IF d.proxy_enabled /\ d.proxy_url \notin {NoUrl, ""}
             THEN d.proxy_url
             ELSE NoUrl

\* The state part of C15: on the database as it is, get_proxy_url gives for
\* every argument what C15 says; and a call that has returned has returned a
\* non-empty proxy or None.
C15_Function ==
    /\ \A token_id \in TokenArgs :
          get_proxy_url(db, token_id) = ResolveRoute(db, token_id)
    /\ route.pc = "done" => route.result \in {NoUrl, "pT", "pG"}

\* The step part of C15: the first step of a call returns the token's proxy
\* when there is one to return and goes on to the configuration otherwise;
\* the second returns the global proxy or None; what a call returns without
\* the database changing meanwhile is what C15 says; and neither step changes
\* the database or the cookie manager.
C15_Steps ==
    /\ \A token_id \in TokenArgs :
          RouteStart(token_id) =>
             /\ db' = db
             /\ IF token_id # None /\ db.tokens[token_id[1]] \in {"pT"}
                THEN route'.pc = "done" /\ route'.result = db.tokens[token_id[1]]
                ELSE route'.pc = "config"
    /\ RouteConfig =>
          /\ db' = db
          /\ route'.pc = "done"
          /\ route'.token_id = route.token_id
          /\ route'.result = ResolveRoute(db, route.token_id)
    /\ route' # route =>
          UNCHANGED <<db, PLAYWRIGHT_AVAILABLE, _cache, _locks, lock_objs,
                      _global_lock, now, tasks, acq_calls>>

\* C15: get_proxy_url(token_id) returns the token's proxy_url when token_id
\* is given, the token exists and its proxy_url is non-empty; otherwise the
\* global proxy_url when the global proxy is enabled and its proxy_url is
\* non-empty; otherwise None.  It changes nothing.
C15_ResolveRoute == []C15_Function /\ [][C15_Steps]_vars

\* A call for token 0, which exists with an empty proxy_url, has returned the
\* enabled global proxy.
C15_Witness ==
    /\ route.pc = "done"
    /\ route.token_id = <<0>>
    /\ db.tokens[0] = ""
    /\ db.proxy_enabled /\ db.proxy_url = "pG"
    /\ route.result = "pG"

\* The state part of C16: the registry maps distinct keys to distinct lock
\* instances, as many instances were created as keys are registered, and every
\* call that has fetched the lock of its key has the instance the registry
\* holds for that key, so two calls for one key have the same instance.
C16_OneInstance ==
    /\ \A k \in DOMAIN _locks : _locks[k] \in DOMAIN lock_objs
    /\ \A k1, k2 \in DOMAIN _locks : _locks[k1] = _locks[k2] => k1 = k2
    /\ Len(lock_objs) = Cardinality(DOMAIN _locks)
    /\ \A t \in Tasks :
          tasks[t].lock # 0 =>
             /\ tasks[t].key \in DOMAIN _locks
             /\ tasks[t].lock = _locks[tasks[t].key]
    /\ \A s, t \in Tasks :
          (tasks[s].lock # 0 /\ tasks[t].lock # 0 /\ tasks[s].key = tasks[t].key)
          => tasks[s].lock = tasks[t].lock

\* The step part of C16: a registered key stays registered with the same
\* instance, no instance disappears, and a call keeps the instance it fetched.
C16_Kept ==
    /\ \A k \in DOMAIN _locks : k \in DOMAIN _locks' /\ _locks'[k] = _locks[k]
    /\ Len(lock_objs') >= Len(lock_objs)
    /\ \A t \in Tasks : tasks[t].lock # 0 => tasks'[t].lock = tasks[t].lock

\* C16: the registry holds one lock instance per key, a registered key is
\* never removed nor given another instance, and all calls that fetch the
\* lock of a key, however their first accesses interleave, get that instance.
C16_LockRegistry == []C16_OneInstance /\ [][C16_Kept]_vars

\* Two calls for one key, the first accesses to that key, have the same lock
\* instance, one holding it and one queued; a call for the other key holds
\* another instance, and two instances exist in all.
C16_Witness ==
    \E a, b, c \in Tasks :
        /\ tasks[a].key = tasks[b].key /\ tasks[c].key # tasks[a].key
        /\ tasks[a].pc = "fetching" /\ tasks[b].pc = "waiting"
        /\ tasks[a].lock = tasks[b].lock /\ tasks[a].lock # 0
        /\ tasks[c].pc = "fetching" /\ tasks[c].lock # tasks[a].lock
        /\ DOMAIN _locks = Keys
        /\ Len(lock_objs) = 2

\* In this step call t, holding the lock of its key with its fetch returned,
\* stores the cookies of that fetch for its key and changes no other entry.
StoresResult(t) ==
    LET k == tasks[t].key IN
    /\ tasks[t].pc = "fetching" /\ tasks'[t].pc = "ret91"
    /\ k \in DOMAIN _locks /\ tasks[t].lock = _locks[k]
    /\ lock_objs[tasks[t].lock].holder = t
    /\ DOMAIN _cache' = DOMAIN _cache \cup {k}
    /\ _cache'[k] = <<tasks[t].inv, _DEFAULT_UA, now>>
    /\ \A j \in DOMAIN _cache \ {k} : _cache'[j] = _cache[j]

\* In this step entries are deleted and none is created or changed, by
\* invalidate or invalidate_all, and no call moves.
DeletesOnly ==
    /\ (\E u \in Urls : Invalidate(u)) \/ InvalidateAll
    /\ DOMAIN _cache' \subseteq DOMAIN _cache
    /\ DOMAIN _cache' # DOMAIN _cache
    /\ \A j \in DOMAIN _cache' : _cache'[j] = _cache[j]
    /\ tasks' = tasks

\* C17: every step that changes the cache either stores the result of a fetch
\* that has just returned cookies, for the key of the call that holds the
\* key's lock, or is an invalidate or invalidate_all that only deletes; so the
\* passing of time, a fetch that gave nothing or raised, and a return from the
\* cache at line 75 or 83 leave every entry, expired ones too, as it was.
C17_CacheWrites ==
    [][/\ _cache' # _cache => (\E t \in Tasks : StoresResult(t)) \/ DeletesOnly
       /\ now' # now => _cache' = _cache
       /\ \A t \in Tasks :
             (/\ tasks'[t] # tasks[t]
              /\ tasks'[t].pc \in {"ret67", "ret75", "ret83", "ret94", "raised",
                                   "waiting", "fetching"})
             => _cache' = _cache]_vars

\* The entry a fetch stored for a key has expired and is still in the cache
\* as stored, after a call was served from it and after a later call's fetch
\* for the key gave nothing.
C17_Witness ==
    \E a, b, c \in Tasks :
        /\ tasks[a].key = tasks[b].key /\ tasks[b].key = tasks[c].key
        /\ tasks[a].pc = "ret91"
        /\ tasks[b].pc = "ret75" /\ tasks[b].result = tasks[a].result
        /\ tasks[c].pc = "ret94"
        /\ tasks[a].key \in DOMAIN _cache
        /\ _cache[tasks[a].key][1] = tasks[a].inv
        /\ now - _cache[tasks[a].key][3] >= CACHE_TTL

\* The state part of C18: invalidate, for every argument, and invalidate_all
\* can run in every state, whoever holds or queues on which lock, and the
\* cache they leave has no entry for the key, respectively no entry.
C18_RunsAnytime ==
    /\ \A u \in Urls :
          /\ ENABLED Invalidate(u)
          /\ _proxy_key(u) \notin DOMAIN InvalidateCache(_cache, _proxy_key(u))
    /\ ENABLED InvalidateAll
    /\ DOMAIN ClearCache(_cache) = {}

\* The step part of C18: an invalidation leaves every lock, the registry and
\* every call as they are, so a fetch outstanding for the key stays
\* outstanding, holding the key's lock; and a fetch that returns cookies stores
\* them as a fresh entry whether or not the key has an entry at that moment.
C18_LastWriterWins ==
    /\ ((\E u \in Urls : Invalidate(u)) \/ InvalidateAll) =>
          UNCHANGED <<_locks, lock_objs, _global_lock, tasks, acq_calls>>
    /\ \A u \in Urls : Invalidate(u) => _proxy_key(u) \notin DOMAIN _cache'
    /\ \A t \in Tasks :
          (tasks[t].pc = "fetching" /\ tasks'[t].pc = "ret91") =>
             /\ tasks[t].key \in DOMAIN _cache'
             /\ _cache'[tasks[t].key] = <<tasks[t].inv, _DEFAULT_UA, now>>
             /\ now' - _cache'[tasks[t].key][3] < CACHE_TTL

\* C18: invalidate(K) and invalidate_all() take and wait for no lock and can
\* run while a fetch for K is outstanding; right after either K has no entry;
\* the outstanding fetch, when it returns cookies, stores them all the same,
\* so K is valid again with an entry whose fetch began before the invalidation.
C18_InvalidateRaces == []C18_RunsAnytime /\ [][C18_LastWriterWins]_vars

\* While the fetch of a call for a key was outstanding, the entry an earlier
\* fetch had stored for the key was removed; the call's fetch has since
\* returned cookies, and they are the key's entry, fresh.
C18_Witness ==
    \E a, b \in Tasks :
        /\ tasks[a].key = tasks[b].key
        /\ tasks[a].pc = "ret91"
        /\ tasks[b].pc = "ret91" /\ tasks[b].inv = tasks[a].inv + 1
        /\ b \in overtaken
        /\ Fresh(tasks[b].key)
        /\ _cache[tasks[b].key][1] = tasks[b].inv

\* Some call that is suspended can go on: a waiter can be resumed or an
\* outstanding fetch can return.
CanGoOn ==
    \E t \in Tasks :
        \/ ENABLED Resume(t)
        \/ ENABLED (\E o \in Outcomes : AcquirerReturn(t, o))

\* The state part of C19: no call is suspended at the global lock, which is
\* free between steps; whenever a call is suspended some call can go on; and a
\* call queued on a lock is in that lock's queue, behind a fetch that is
\* outstanding or with the lock free for the first in the queue.
C19_NoDeadlock ==
    /\ _global_lock = NoTask
    /\ \A t \in Tasks : tasks[t].pc # "wait_global"
    /\ (\E t \in Tasks : tasks[t].pc \notin Ended \cup {"idle"}) => CanGoOn
    /\ \A t \in Tasks :
          tasks[t].pc = "waiting" =>
             LET l == lock_objs[tasks[t].lock] IN
             /\ \E i \in DOMAIN l.waiters : l.waiters[i] = t
             /\ \/ l.holder # NoTask /\ tasks[l.holder].pc = "fetching"
                \/ l.holder = NoTask /\ ENABLED Resume(Head(l.waiters))

\* C19: when every browser fetch returns and the event loop resumes every
\* call that can run, every call of get_cookies that has started ends, every
\* call queued on a key's lock gets the lock (and then fetches under it or
\* returns at line 83), and no state is a deadlock.
C19_Progress ==
    /\ []C19_NoDeadlock
    /\ \A t \in Tasks : (tasks[t].pc # "idle") ~> (tasks[t].pc \in Ended)
    /\ \A t \in Tasks :
          (tasks[t].pc = "waiting") ~> (tasks[t].pc \in {"fetching", "ret83"})

\* Three forced calls for one key, the second and third queued behind the
\* first, have fetched one after the other and have all ended, the first by
\* an exception out of its fetch.
C19_Witness ==
    \E a, b, c \in Tasks :
        /\ tasks[a].key = tasks[b].key /\ tasks[b].key = tasks[c].key
        /\ tasks[a].force_refresh /\ tasks[b].force_refresh
        /\ tasks[c].force_refresh
        /\ tasks[a].pc = "raised" /\ tasks[a].inv = 1
        /\ tasks[b].pc \in Ended /\ tasks[b].inv = 2
        /\ tasks[c].pc \in Ended /\ tasks[c].inv = 3

(* ------------------------------- C20 ---------------------------------- *)

\* The calls whose browser fetched the cookies that call t was served from
\* the cache (same key, same cookie jar).
ServedFrom(t) ==
    {a \in Tasks : /\ tasks[t].pc \in {"ret75", "ret83"}
                   /\ tasks[a].pc = "ret91"
                   /\ tasks[a].key = tasks[t].key
                   /\ tasks[a].result = tasks[t].result}

\* The calls that went to the same lock as call t.
SameLock(t) ==
    {a \in Tasks : tasks[t].lock # 0 /\ tasks[a].lock = tasks[t].lock}

\* None and "" have the key "__no_proxy__", every other proxy_url is its own
\* key.
C20_Normalised ==
    \A u \in AllUrls :
        _proxy_key(u) = IF Truthy(u) THEN u ELSE "__no_proxy__"

\* Calls whose browsers use different proxies (or a proxy and none) share
\* neither a lock nor a cache entry.
C20_PartitionsApart ==
    \A t \in Tasks : \A a \in ServedFrom(t) \cup SameLock(t) :
        tasks[a].proxy = tasks[t].proxy

\* C20: key normalization: an absent and an empty proxy_url map to one fixed
\* sentinel key and every non-empty proxy_url maps to itself; get_cookies,
\* invalidate, _locks and _cache all use that key, so that the calls without
\* proxy and the calls with a proxy X never share a cache entry or a lock.
\* The code does not keep this for the proxy_url "__no_proxy__": it is
\* non-empty, and its key is the sentinel's.
C20_AsStated == C20_Normalised /\ C20_PartitionsApart

====
